---- MODULE Spec2Model ----
(***************************************************************************)
(* Model of the oil-market recommendation tool (codigo.py and              *)
(* demo_cosine_similarity.py).                                             *)
(*                                                                         *)
(* The program computes with Python floats / numpy float64, i.e. IEEE-754  *)
(* binary64 with round-to-nearest-even.  TLC has 32-bit integers only, so  *)
(* a binary64 number is modelled here as a record                          *)
(*      [k |-> "fin", s |-> 1 or -1, m |-> mantissa, e |-> exponent]       *)
(* of value s * m * 2^e, where the mantissa is a natural number of exactly *)
(* 53 bits kept as a little-endian sequence of 15-bit limbs (<<>> is 0),   *)
(* or [k |-> "nan"] / [k |-> "inf", s |-> sign] for the non-finite values. *)
(* Every arithmetic operator computes the exact result and rounds it once, *)
(* as the hardware does.                                                   *)
(***************************************************************************)
EXTENDS Integers, Sequences, FiniteSets, TLC

(***************************************************************************)
(* Natural numbers of arbitrary size: little-endian limbs in base 2^15.    *)
(***************************************************************************)
RECURSIVE BigTrim(_)
BigTrim(n) ==
    IF n = <<>> THEN n
    ELSE IF n[Len(n)] = 0 THEN BigTrim(SubSeq(n, 1, Len(n) - 1)) ELSE n

BigOfInt(i) ==
    BigTrim(<<i % 32768, (i \div 32768) % 32768, i \div 1073741824>>)

RECURSIVE BigAddC(_, _, _)
BigAddC(x, y, c) ==
    IF x = <<>> /\ y = <<>> THEN (IF c = 0 THEN <<>> ELSE <<c>>)
    ELSE LET a == IF x = <<>> THEN 0 ELSE Head(x)
             b == IF y = <<>> THEN 0 ELSE Head(y)
             t == a + b + c
         IN  <<t % 32768>> \o BigAddC(IF x = <<>> THEN x ELSE Tail(x),
                                      IF y = <<>> THEN y ELSE Tail(y),
                                      t \div 32768)

BigAdd(x, y) == BigAddC(x, y, 0)

\* x - y - c for x >= y + c; the result may carry leading zero limbs.
RECURSIVE BigSubC(_, _, _)
BigSubC(x, y, c) ==
    IF x = <<>> THEN <<>>
    ELSE LET b == IF y = <<>> THEN 0 ELSE Head(y)
             t == Head(x) - b - c
         IN  <<t % 32768>> \o BigSubC(Tail(x),
                                      IF y = <<>> THEN y ELSE Tail(y),
                                      IF t < 0 THEN 1 ELSE 0)

BigSub(x, y) == BigTrim(BigSubC(x, y, 0))

\* -1, 0, 1 as x < y, x = y, x > y (both without leading zero limbs).
RECURSIVE BigCmpAt(_, _, _)
BigCmpAt(x, y, i) ==
    IF i = 0 THEN 0
    ELSE IF x[i] < y[i] THEN -1
    ELSE IF x[i] > y[i] THEN 1
    ELSE BigCmpAt(x, y, i - 1)

BigCmp(x, y) ==
    IF Len(x) < Len(y) THEN -1
    ELSE IF Len(x) > Len(y) THEN 1
    ELSE BigCmpAt(x, y, Len(x))

\* x * k + c for one limb k.
RECURSIVE BigMulSmall(_, _, _)
BigMulSmall(x, k, c) ==
    IF x = <<>> THEN (IF c = 0 THEN <<>> ELSE <<c>>)
    ELSE LET t == Head(x) * k + c
         IN  <<t % 32768>> \o BigMulSmall(Tail(x), k, t \div 32768)

RECURSIVE BigMul(_, _)
BigMul(x, y) ==
    IF y = <<>> \/ x = <<>> THEN <<>>
    ELSE BigTrim(BigAdd(BigMulSmall(x, Head(y), 0), <<0>> \o BigMul(x, Tail(y))))

RECURSIVE BigZeros(_)
BigZeros(q) == IF q = 0 THEN <<>> ELSE <<0>> \o BigZeros(q - 1)

\* x * 2^k
BigShl(x, k) ==
    IF x = <<>> THEN x
    ELSE BigZeros(k \div 15) \o BigMulSmall(x, 2 ^ (k % 15), 0)

\* floor(x / 2^r) for r < 15, the limb above x being hi.
RECURSIVE BigShrSmall(_, _)
BigShrSmall(x, r) ==
    IF x = <<>> THEN <<>>
    ELSE LET up == IF Len(x) = 1 THEN 0 ELSE x[2] % (2 ^ r)
         IN  <<(Head(x) \div (2 ^ r)) + up * (2 ^ (15 - r))>>
             \o BigShrSmall(Tail(x), r)

\* floor(x / 2^k)
BigShr(x, k) ==
    IF k \div 15 >= Len(x) THEN <<>>
    ELSE BigTrim(BigShrSmall(SubSeq(x, (k \div 15) + 1, Len(x)), k % 15))

\* bit i (0 is the least significant) of x
BigBit(x, i) ==
    IF i \div 15 >= Len(x) THEN 0
    ELSE (x[(i \div 15) + 1] \div (2 ^ (i % 15))) % 2

\* whether some bit below bit k of x is set
BigLowBits(x, k) ==
    \/ \E j \in 1..Len(x) : j <= k \div 15 /\ x[j] # 0
    \/ /\ k \div 15 < Len(x)
       /\ x[(k \div 15) + 1] % (2 ^ (k % 15)) # 0

RECURSIVE IntBitLen(_)
IntBitLen(i) == IF i = 0 THEN 0 ELSE 1 + IntBitLen(i \div 2)

BigBitLen(x) ==
    IF x = <<>> THEN 0 ELSE 15 * (Len(x) - 1) + IntBitLen(x[Len(x)])

\* Restoring division, one quotient bit per step: st = <<r, q, k>> with r < 2d
\* becomes <<2 (r - bit * d), 2 q + bit, k - 1>> where bit = (r >= d), until
\* the k steps are done.
RECURSIVE DivLoop(_, _)
DivLoop(st, d) ==
    IF st[3] = 0 THEN st
    ELSE LET ge == BigCmp(st[1], d) >= 0
             r  == IF ge THEN BigSub(st[1], d) ELSE st[1]
         IN  DivLoop(<<BigShl(r, 1),
                       BigTrim(BigAddC(BigShl(st[2], 1), <<>>, IF ge THEN 1 ELSE 0)),
                       st[3] - 1>>, d)

\* For n < 2d: <<floor(n * 2^56 / d), whether the division left a remainder>>
\* (57 quotient bits).
BigDiv56(n, d) ==
    LET st == DivLoop(<<n, <<>>, 57>>, d)
    IN  <<st[2], st[1] # <<>>>>

\* Binary square root, one result bit per step: st = <<n, res, b>>, 2^b the
\* current power of four, until b has passed 0.
RECURSIVE SqrtLoop(_)
SqrtLoop(st) ==
    IF st[3] < 0 THEN st
    ELSE LET t == BigAdd(st[2], BigShl(<<1>>, st[3]))
         IN  IF BigCmp(st[1], t) >= 0
             THEN SqrtLoop(<<BigSub(st[1], t),
                             BigAdd(BigShr(st[2], 1), BigShl(<<1>>, st[3])),
                             st[3] - 2>>)
             ELSE SqrtLoop(<<st[1], BigShr(st[2], 1), st[3] - 2>>)

\* For 2^110 <= n < 2^112: <<floor(sqrt(n)), whether n is not a perfect square>>
\* (56 result bits).
BigSqrt112(n) ==
    LET st == SqrtLoop(<<n, <<>>, 110>>)
    IN  <<st[2], st[1] # <<>>>>

(***************************************************************************)
(* IEEE-754 binary64 values and their correctly rounded arithmetic.        *)
(***************************************************************************)
NaN == [k |-> "nan"]

Inf(s) == [k |-> "inf", s |-> s]

Fin(s, m, e) == [k |-> "fin", s |-> s, m |-> m, e |-> e]

Zero == Fin(1, <<>>, 0)

IsZero(x) == x.k = "fin" /\ x.m = <<>>

IsNaN(x) == x.k = "nan"

\* Round s * (m + t) * 2^e, with 0 <= t < 1 and sticky = (t > 0), to the nearest
\* binary64, ties to even.  A sticky result must come with at least 55 bits in m.
RoundF(s, m, e, sticky) ==
    LET L == BigBitLen(m)
    IN  IF m = <<>> THEN Zero
        ELSE IF L <= 53 THEN Fin(s, BigShl(m, 53 - L), e - (53 - L))
        ELSE LET sh   == L - 53
                 q    == BigShr(m, sh)
                 half == BigBit(m, sh - 1) = 1
                 rest == sticky \/ BigLowBits(m, sh - 1)
                 up   == half /\ (rest \/ BigBit(q, 0) = 1)
                 q1   == IF up THEN BigTrim(BigAddC(q, <<>>, 1)) ELSE q
             IN  IF BigBitLen(q1) = 54
                 THEN Fin(s, BigShr(q1, 1), e + sh + 1)
                 ELSE Fin(s, q1, e + sh)

\* An integer literal (int -> float conversion of a small integer is exact).
FromInt(i) == RoundF(IF i < 0 THEN -1 ELSE 1, BigOfInt(IF i < 0 THEN -i ELSE i), 0, FALSE)

FNeg(x) == IF x.k = "nan" THEN x
           ELSE IF x.k = "inf" THEN Inf(-x.s)
           ELSE IF x.m = <<>> THEN x ELSE Fin(-x.s, x.m, x.e)

\* Exact sum of two finite values, rounded once (the mantissas may be longer
\* than 53 bits, as an exact product's is).  An operand wholly more than 64
\* binary places below the other's last place only makes the result inexact.
FAddFin(x, y) ==
    IF x.m = <<>> THEN RoundF(y.s, y.m, y.e, FALSE)
    ELSE IF y.m = <<>> THEN RoundF(x.s, x.m, x.e, FALSE)
    ELSE LET hi == IF x.e >= y.e THEN x ELSE y
             lo == IF x.e >= y.e THEN y ELSE x
             d  == hi.e - lo.e
         IN  IF d - BigBitLen(lo.m) > 64 THEN
                 RoundF(hi.s,
                        IF lo.s = hi.s THEN BigShl(hi.m, 2)
                        ELSE BigSub(BigShl(hi.m, 2), <<1>>),
                        hi.e - 2, TRUE)
             ELSE LET a == BigShl(hi.m, d)
                      b == lo.m
                  IN  IF hi.s = lo.s THEN RoundF(hi.s, BigTrim(BigAdd(a, b)), lo.e, FALSE)
                      ELSE IF BigCmp(a, b) >= 0
                           THEN RoundF(hi.s, BigSub(a, b), lo.e, FALSE)
                           ELSE RoundF(lo.s, BigSub(b, a), lo.e, FALSE)

\* x + y
FAdd(x, y) ==
    IF x.k = "nan" \/ y.k = "nan" THEN NaN
    ELSE IF x.k = "inf" THEN (IF y.k = "inf" /\ y.s # x.s THEN NaN ELSE x)
    ELSE IF y.k = "inf" THEN y
    ELSE FAddFin(x, y)

\* x - y
FSub(x, y) == FAdd(x, FNeg(y))

\* x * y
FMul(x, y) ==
    IF x.k = "nan" \/ y.k = "nan" THEN NaN
    ELSE IF x.k = "inf" \/ y.k = "inf"
         THEN (IF IsZero(x) \/ IsZero(y) THEN NaN ELSE Inf(x.s * y.s))
    ELSE IF x.m = <<>> \/ y.m = <<>> THEN Zero
    ELSE RoundF(x.s * y.s, BigMul(x.m, y.m), x.e + y.e, FALSE)

\* Fused multiply-add: x * y + z with a single rounding.
FMA(x, y, z) ==
    IF x.k # "fin" \/ y.k # "fin" \/ z.k # "fin" THEN FAdd(FMul(x, y), z)
    ELSE IF x.m = <<>> \/ y.m = <<>> THEN z
    ELSE FAddFin(Fin(x.s * y.s, BigMul(x.m, y.m), x.e + y.e), z)

\* x / y on numpy float64 scalars: a zero divisor gives nan or inf (with a
\* RuntimeWarning), never an exception.
FDiv(x, y) ==
    IF x.k = "nan" \/ y.k = "nan" THEN NaN
    ELSE IF x.k = "inf" THEN (IF y.k = "inf" THEN NaN ELSE Inf(x.s * y.s))
    ELSE IF y.k = "inf" THEN Zero
    ELSE IF y.m = <<>> THEN (IF x.m = <<>> THEN NaN ELSE Inf(x.s))
    ELSE IF x.m = <<>> THEN Zero
    ELSE LET qr == BigDiv56(x.m, y.m)
         IN  RoundF(x.s * y.s, qr[1], x.e - y.e - 56, qr[2])

\* sqrt(x)
FSqrt(x) ==
    IF x.k = "nan" THEN NaN
    ELSE IF x.k = "inf" THEN (IF x.s = 1 THEN x ELSE NaN)
    ELSE IF x.m = <<>> THEN Zero
    ELSE IF x.s = -1 THEN NaN
    ELSE LET odd == x.e % 2
             sr  == BigSqrt112(BigShl(x.m, 58 + odd))
         IN  RoundF(1, sr[1], (x.e - 58 - odd) \div 2, sr[2])

\* -1, 0, 1 as x < y, x = y, x > y, for finite x and y.
FCmp(x, y) ==
    IF x.m = <<>> THEN (IF y.m = <<>> THEN 0 ELSE -y.s)
    ELSE IF y.m = <<>> THEN x.s
    ELSE IF x.s # y.s THEN x.s
    ELSE IF x.e # y.e THEN (IF x.e > y.e THEN x.s ELSE -x.s)
    ELSE x.s * BigCmp(x.m, y.m)

\* The comparison operators; every comparison with nan is False.
Ordered(x, y) == x.k # "nan" /\ y.k # "nan"

FCmpX(x, y) ==
    IF x.k = "inf" THEN (IF y.k = "inf" /\ y.s = x.s THEN 0 ELSE x.s)
    ELSE IF y.k = "inf" THEN -y.s
    ELSE FCmp(x, y)

FLt(x, y) == Ordered(x, y) /\ FCmpX(x, y) < 0

FLe(x, y) == Ordered(x, y) /\ FCmpX(x, y) <= 0

FGt(x, y) == Ordered(x, y) /\ FCmpX(x, y) > 0

FGe(x, y) == Ordered(x, y) /\ FCmpX(x, y) >= 0

FEq(x, y) == Ordered(x, y) /\ FCmpX(x, y) = 0

\* A decimal literal n / d (d a power of ten): the nearest binary64 to the
\* decimal value, as Python's parser yields.
Dec(n, d) == FDiv(FromInt(n), FromInt(d))

(***************************************************************************)
(* Cosine similarity, as demostrar_cosine_similarity computes it with      *)
(* numpy.  A vector is a sequence of binary64 values.                      *)
(***************************************************************************)
\* np.array([...]) of decimal literals with two decimals, given in hundredths.
np_array(c) == [i \in 1..Len(c) |-> Dec(c[i], 100)]

\* numpy refuses operands whose shapes differ.
ValueError == [k |-> "ValueError"]

\* The BLAS dot kernel on short vectors: the products are accumulated from 0.0
\* in index order.  Whether each multiply-add is fused (one rounding) or not (two)
\* depends on how the library was built.
RECURSIVE ddot(_, _, _, _, _)
ddot(acc, a, b, i, fused) ==
    IF i > Len(a) THEN acc
    ELSE ddot(IF fused THEN FMA(a[i], b[i], acc) ELSE FAdd(acc, FMul(a[i], b[i])),
              a, b, i + 1, fused)

\* The product over the common prefix of the two arrays, whatever their lengths.
np_dot_truncado(a, b, fused) ==
    LET n == IF Len(a) < Len(b) THEN Len(a) ELSE Len(b)
    IN  ddot(Zero, SubSeq(a, 1, n), SubSeq(b, 1, n), 1, fused)

\* np.dot(a, b) for one-dimensional arrays.
np_dot(a, b, fused) ==
    IF Len(a) # Len(b) THEN ValueError ELSE ddot(Zero, a, b, 1, fused)

\* The norm with its square root left out.
np_linalg_norm_sin_raiz(x, fused) == np_dot(x, x, fused)

\* np.linalg.norm(x) for a one-dimensional real array: sqrt(x.dot(x)).
np_linalg_norm(x, fused) == FSqrt(np_dot(x, x, fused))

\* The quotient with the norm of the first vector taken twice.
cosine_sim_norma_repetida(a, b, fused) ==
    LET dot_product == np_dot(a, b, fused)
        norm_a      == np_linalg_norm(a, fused)
    IN  IF dot_product = ValueError THEN ValueError
        ELSE FDiv(dot_product, FMul(norm_a, norm_a))

\* The quotient with the norm of the second vector left out.
cosine_sim_sin_norma_b(a, b, fused) ==
    LET dot_product == np_dot(a, b, fused)
        norm_a      == np_linalg_norm(a, fused)
    IN  IF dot_product = ValueError THEN ValueError
        ELSE FDiv(dot_product, norm_a)

\* cosine_sim = dot_product / (norm_a * norm_b)
cosine_sim(a, b, fused) ==
    LET dot_product == np_dot(a, b, fused)
        norm_a      == np_linalg_norm(a, fused)
        norm_b      == np_linalg_norm(b, fused)
    IN  IF dot_product = ValueError THEN ValueError
        ELSE FDiv(dot_product, FMul(norm_a, norm_b))

(***************************************************************************)
(* Modulo 6: generar_escenarios.                                           *)
(***************************************************************************)
generar_escenarios(precio_actual, cambio_base, sentimiento) ==
    LET precio_conservador ==
            FMul(precio_actual, FAdd(FromInt(1), FDiv(cambio_base, FromInt(100))))
        precio_optimista ==
            FMul(precio_actual,
                 FAdd(FromInt(1), FMul(FDiv(cambio_base, FromInt(100)), Dec(13, 10))))
        precio_pesimista ==
            FMul(precio_actual,
                 FAdd(FromInt(1), FMul(FDiv(cambio_base, FromInt(100)), Dec(7, 10))))
    IN  [optimista |->
             [precio        |-> precio_optimista,
              cambio        |-> FMul(FDiv(FSub(precio_optimista, precio_actual), precio_actual),
                                     FromInt(100)),
              recomendacion |-> "COMPRAR FUERTE"],
         conservador |->
             [precio        |-> precio_conservador,
              cambio        |-> cambio_base,
              recomendacion |-> IF FGt(cambio_base, FromInt(0)) THEN "COMPRAR" ELSE "VENDER"],
         pesimista |->
             [precio        |-> precio_pesimista,
              cambio        |-> FMul(FDiv(FSub(precio_pesimista, precio_actual), precio_actual),
                                     FromInt(100)),
              recomendacion |-> "VENDER o MANTENER"]]

(***************************************************************************)
(* Modulo 7: generar_recomendacion_final.                                  *)
(***************************************************************************)
\* The builtins min(a, b) and max(a, b): the first argument is returned unless
\* the second is strictly smaller (larger); a comparison with nan is False.
py_min(a, b) == IF FLt(b, a) THEN b ELSE a

py_max(a, b) == IF FGt(b, a) THEN b ELSE a

\* The classification with >= and <= in place of > and <, which counts a tie as
\* part of a trend.
Tendencia_con_empates(precio_actual, sma20, sma50) ==
    IF FGe(precio_actual, sma20) /\ FGe(sma20, sma50) THEN "ALCISTA"
    ELSE IF FLe(precio_actual, sma20) /\ FLe(sma20, sma50) THEN "BAJISTA"
    ELSE "LATERAL"

\* Tendencia: the chained comparisons precio_actual > sma20 > sma50 and
\* precio_actual < sma20 < sma50.
Tendencia(precio_actual, sma20, sma50) ==
    IF FGt(precio_actual, sma20) /\ FGt(sma20, sma50) THEN "ALCISTA"
    ELSE IF FLt(precio_actual, sma20) /\ FLt(sma20, sma50) THEN "BAJISTA"
    ELSE "LATERAL"

tecnico_norm(tendencia) ==
    IF tendencia = "ALCISTA" THEN Dec(7, 10)
    ELSE IF tendencia = "BAJISTA" THEN Dec(3, 10)
    ELSE Dec(5, 10)

\* The prediction signal without the max(0, min(1, .)).
pred_norm_sin_limite(cambio_prediccion) ==
    FDiv(FAdd(cambio_prediccion, FromInt(10)), FromInt(20))

\* Prediccion: -10% -> 0, +10% -> 1
pred_norm(cambio_prediccion) ==
    py_max(FromInt(0), py_min(FromInt(1), FDiv(FAdd(cambio_prediccion, FromInt(10)), FromInt(20))))

\* The sentiment signal confined to [0, 1] like the prediction signal.
sent_norm_acotado(sentimiento) ==
    py_max(FromInt(0), py_min(FromInt(1), FDiv(FAdd(sentimiento, FromInt(1)), FromInt(2))))

\* Sentimiento: -1 -> 0, +1 -> 1
sent_norm(sentimiento) == FDiv(FAdd(sentimiento, FromInt(1)), FromInt(2))

PESO_PREDICCION == Dec(40, 100)

PESO_TECNICO == Dec(30, 100)

PESO_SENTIMIENTO == Dec(30, 100)

\* The sum of the three signals without their weights.
score_final_sin_pesos(pred, tecnico, sent) == FAdd(FAdd(pred, tecnico), sent)

\* The formula with the weights of prediction and technical signal exchanged.
score_final_pesos_cambiados(pred, tecnico, sent) ==
    FAdd(FAdd(FMul(PESO_TECNICO, pred), FMul(PESO_PREDICCION, tecnico)),
         FMul(PESO_SENTIMIENTO, sent))

\* The formula with the technical signal counted downwards (1 - tecnico).
score_final_tecnico_invertido(pred, tecnico, sent) ==
    FAdd(FAdd(FMul(PESO_PREDICCION, pred), FMul(PESO_TECNICO, FSub(FromInt(1), tecnico))),
         FMul(PESO_SENTIMIENTO, sent))

\* Formula de integracion
score_final(pred, tecnico, sent) ==
    FAdd(FAdd(FMul(PESO_PREDICCION, pred), FMul(PESO_TECNICO, tecnico)),
         FMul(PESO_SENTIMIENTO, sent))

\* The chain that refuses a score outside [0, 1].
Decision_rechaza_fuera_de_rango(score) ==
    IF FGt(score, FromInt(1)) \/ FLt(score, FromInt(0))
    THEN [accion |-> "ERROR", riesgo |-> "ERROR"]
    ELSE IF FGe(score, Dec(65, 100)) THEN [accion |-> "COMPRAR FUERTE", riesgo |-> "MEDIO-ALTO"]
    ELSE IF FGe(score, Dec(55, 100)) THEN [accion |-> "COMPRAR", riesgo |-> "MEDIO"]
    ELSE IF FGt(score, Dec(45, 100)) THEN [accion |-> "MANTENER", riesgo |-> "BAJO"]
    ELSE IF FGt(score, Dec(35, 100)) THEN [accion |-> "VENDER", riesgo |-> "MEDIO"]
    ELSE [accion |-> "VENDER FUERTE", riesgo |-> "ALTO"]

\* The chain with >= 0.45 in place of > 0.45.
Decision_045_inclusivo(score) ==
    IF FGe(score, Dec(65, 100)) THEN [accion |-> "COMPRAR FUERTE", riesgo |-> "MEDIO-ALTO"]
    ELSE IF FGe(score, Dec(55, 100)) THEN [accion |-> "COMPRAR", riesgo |-> "MEDIO"]
    ELSE IF FGe(score, Dec(45, 100)) THEN [accion |-> "MANTENER", riesgo |-> "BAJO"]
    ELSE IF FGt(score, Dec(35, 100)) THEN [accion |-> "VENDER", riesgo |-> "MEDIO"]
    ELSE [accion |-> "VENDER FUERTE", riesgo |-> "ALTO"]

\* The chain with > 0.55 in place of >= 0.55.
Decision_055_exclusivo(score) ==
    IF FGe(score, Dec(65, 100)) THEN [accion |-> "COMPRAR FUERTE", riesgo |-> "MEDIO-ALTO"]
    ELSE IF FGt(score, Dec(55, 100)) THEN [accion |-> "COMPRAR", riesgo |-> "MEDIO"]
    ELSE IF FGt(score, Dec(45, 100)) THEN [accion |-> "MANTENER", riesgo |-> "BAJO"]
    ELSE IF FGt(score, Dec(35, 100)) THEN [accion |-> "VENDER", riesgo |-> "MEDIO"]
    ELSE [accion |-> "VENDER FUERTE", riesgo |-> "ALTO"]

\* The chain with >= 0.35 in place of > 0.35.
Decision_035_inclusivo(score) ==
    IF FGe(score, Dec(65, 100)) THEN [accion |-> "COMPRAR FUERTE", riesgo |-> "MEDIO-ALTO"]
    ELSE IF FGe(score, Dec(55, 100)) THEN [accion |-> "COMPRAR", riesgo |-> "MEDIO"]
    ELSE IF FGt(score, Dec(45, 100)) THEN [accion |-> "MANTENER", riesgo |-> "BAJO"]
    ELSE IF FGe(score, Dec(35, 100)) THEN [accion |-> "VENDER", riesgo |-> "MEDIO"]
    ELSE [accion |-> "VENDER FUERTE", riesgo |-> "ALTO"]

\* Decision: the if/elif chain on score_final, high to low.
Decision(score) ==
    IF FGe(score, Dec(65, 100)) THEN [accion |-> "COMPRAR FUERTE", riesgo |-> "MEDIO-ALTO"]
    ELSE IF FGe(score, Dec(55, 100)) THEN [accion |-> "COMPRAR", riesgo |-> "MEDIO"]
    ELSE IF FGt(score, Dec(45, 100)) THEN [accion |-> "MANTENER", riesgo |-> "BAJO"]
    ELSE IF FGt(score, Dec(35, 100)) THEN [accion |-> "VENDER", riesgo |-> "MEDIO"]
    ELSE [accion |-> "VENDER FUERTE", riesgo |-> "ALTO"]

\* Razones, each kept as the branch taken.
Razones(cambio_prediccion, tendencia, rsi_actual, sentimiento) ==
    [prediccion  |-> IF FGt(cambio_prediccion, FromInt(0)) THEN "alcista" ELSE "bajista",
     tendencia   |-> tendencia,
     rsi         |-> IF FGt(rsi_actual, FromInt(70)) THEN "sobrecomprado"
                     ELSE IF FLt(rsi_actual, FromInt(30)) THEN "sobrevendido"
                     ELSE "neutral",
     sentimiento |-> IF FGt(sentimiento, Dec(2, 10)) THEN "positivo"
                     ELSE IF FLt(sentimiento, FNeg(Dec(2, 10))) THEN "negativo"
                     ELSE "neutral"]

\* The dict the function returns, with the three normalised signals it printed
\* on the way (senales), for a last row df of the price table.
generar_recomendacion_final(df, cambio_prediccion, sentimiento, escenarios) ==
    LET tendencia == Tendencia(df.precio, df.SMA_20, df.SMA_50)
        tecnico   == tecnico_norm(tendencia)
        pred      == pred_norm(cambio_prediccion)
        sent      == sent_norm(sentimiento)
        score     == score_final(pred, tecnico, sent)
        d         == Decision(score)
    IN  [accion        |-> d.accion,
         score         |-> score,
         riesgo        |-> d.riesgo,
         razones       |-> Razones(cambio_prediccion, tendencia, df.RSI, sentimiento),
         precio_actual |-> df.precio,
         escenarios    |-> escenarios,
         senales       |-> [pred_norm |-> pred, tecnico_norm |-> tecnico, sent_norm |-> sent]]

(***************************************************************************)
(* The similarity table of demostrar_cosine_similarity, and the engine     *)
(* built on it (SimilarityRanker, RecommendationEngine, ActionCatalog).    *)
(***************************************************************************)
None == [k |-> "None"]

\* 'palabra' in nombre, a name being kept as its sequence of words.
Contiene(nombre, palabra) == \E j \in 1..Len(nombre) : nombre[j] = palabra

\* Determinar recomendacion basada en el escenario historico
recomendacion_de(nombre) ==
    IF Contiene(nombre, "SIMILAR") THEN "COMPRAR"
    ELSE IF Contiene(nombre, "DIFERENTE") \/ Contiene(nombre, "OPUESTO") THEN "VENDER"
    ELSE "MANTENER"

\* The value of a natural number of at most two limbs.
BigToInt(n) ==
    IF n = <<>> THEN 0 ELSE IF Len(n) = 1 THEN n[1] ELSE n[1] + 32768 * n[2]

\* The format {cosine_sim:>11.4f}: the decimal with four places nearest to the
\* exact value of the float, ties to even, given as its count of ten-thousandths
\* (0.99799... prints as 0.9980 and is 9980 here); "nan" for nan.
formato_4f(x) ==
    IF x.k # "fin" THEN x.k
    ELSE LET P == BigMul(x.m, BigOfInt(10000))
             k == -x.e
             q == IF k <= 0 THEN BigShl(P, -k) ELSE BigShr(P, k)
             medio == k >= 1 /\ BigBit(P, k - 1) = 1
             resto == k >= 2 /\ BigLowBits(P, k - 1)
             sube  == medio /\ (resto \/ BigBit(q, 0) = 1)
         IN  x.s * (BigToInt(q) + IF sube THEN 1 ELSE 0)

\* One pass of the loop body: the row printed for a historical situation.
Fila(situacion, nombre, vector_historico, fused) ==
    [nombre        |-> nombre,
     cosine_sim    |-> cosine_sim(situacion, vector_historico, fused),
     recomendacion |-> recomendacion_de(nombre)]

\* The insertion that also passes rows of equal similarity.
RECURSIVE Insertar_antes_de_iguales(_, _)
Insertar_antes_de_iguales(ordenadas, fila) ==
    IF ordenadas = <<>> THEN <<fila>>
    ELSE IF FGe(fila.cosine_sim, Head(ordenadas).cosine_sim)
         THEN <<fila>> \o ordenadas
         ELSE <<Head(ordenadas)>> \o Insertar_antes_de_iguales(Tail(ordenadas), fila)

\* SimilarityRanker: the rows in descending order of similarity, rows of equal
\* similarity staying in insertion order (a stable insertion sort).
RECURSIVE Insertar(_, _)
Insertar(ordenadas, fila) ==
    IF ordenadas = <<>> THEN <<fila>>
    ELSE IF FGt(fila.cosine_sim, Head(ordenadas).cosine_sim)
         THEN <<fila>> \o ordenadas
         ELSE <<Head(ordenadas)>> \o Insertar(Tail(ordenadas), fila)

RECURSIVE Ordenar(_, _)
Ordenar(ordenadas, filas) ==
    IF filas = <<>> THEN ordenadas
    ELSE Ordenar(Insertar(ordenadas, Head(filas)), Tail(filas))

EmptyLibrary == [k |-> "EmptyLibrary"]

DimensionMismatch == [k |-> "DimensionMismatch"]

UndefinedSimilarity == [k |-> "UndefinedSimilarity"]

\* What makes ranking fail, None when nothing does.
rank_error(filas) ==
    IF filas = <<>> THEN EmptyLibrary
    ELSE IF \E j \in 1..Len(filas) : filas[j].cosine_sim.k = "ValueError" THEN DimensionMismatch
    ELSE IF \E j \in 1..Len(filas) : filas[j].cosine_sim.k # "fin" THEN UndefinedSimilarity
    ELSE None

\* The ranking that accepts a library without situations.
rank_biblioteca_vacia(filas) ==
    IF filas # <<>> /\ rank_error(filas) # None THEN rank_error(filas)
    ELSE Ordenar(<<>>, filas)

\* The ranking left in insertion order.
rank_sin_ordenar(filas) ==
    IF rank_error(filas) # None THEN rank_error(filas) ELSE filas

rank(filas) ==
    IF rank_error(filas) # None THEN rank_error(filas) ELSE Ordenar(<<>>, filas)

\* ActionCatalog: action identifier -> ActionDescriptor.
ActionCatalog ==
    [COMPRAR  |-> [id |-> "COMPRAR",  nivel |-> "alcista",  riesgo |-> "MEDIO"],
     VENDER   |-> [id |-> "VENDER",   nivel |-> "bajista",  riesgo |-> "MEDIO"],
     MANTENER |-> [id |-> "MANTENER", nivel |-> "neutral",  riesgo |-> "BAJO"]]

UnknownAction == [k |-> "UnknownAction"]

lookup(catalog, actionId) ==
    IF actionId \in DOMAIN catalog THEN catalog[actionId] ELSE UnknownAction

\* SituationLibrary.outcomeOf: the action bound to a ranked situation.
outcomeOf(fila) == fila.recomendacion

UnknownSituation == [k |-> "UnknownSituation"]

Errores == {EmptyLibrary, DimensionMismatch, UndefinedSimilarity, UnknownAction,
            UnknownSituation}

\* The engine that gives no recommendation when the best similarity is below 0.5.
recommend_con_umbral(filas, catalog) ==
    IF rank_error(filas) # None THEN rank_error(filas)
    ELSE LET ranked == rank(filas)
             best   == Head(ranked)
             action == lookup(catalog, outcomeOf(best))
         IN  IF FLt(best.cosine_sim, Dec(5, 10)) THEN [k |-> "NoMatch"]
             ELSE IF action = UnknownAction THEN action
             ELSE [chosenAction |-> action,
                   matched      |-> best.nombre,
                   score        |-> best.cosine_sim,
                   ranked       |-> ranked]

\* The engine taking the last entry of the ranking as the best match.
recommend_ultimo(filas, catalog) ==
    IF rank_error(filas) # None THEN rank_error(filas)
    ELSE LET ranked == rank(filas)
             best   == ranked[Len(ranked)]
             action == lookup(catalog, outcomeOf(best))
         IN  IF action = UnknownAction THEN action
             ELSE [chosenAction |-> action,
                   matched      |-> best.nombre,
                   score        |-> best.cosine_sim,
                   ranked       |-> ranked]

\* RecommendationEngine: the best match is the first entry of the ranking.
recommend(filas, catalog) ==
    IF rank_error(filas) # None THEN rank_error(filas)
    ELSE LET ranked == rank(filas)
             best   == Head(ranked)
             action == lookup(catalog, outcomeOf(best))
         IN  IF action = UnknownAction THEN action
             ELSE [chosenAction |-> action,
                   matched      |-> best.nombre,
                   score        |-> best.cosine_sim,
                   ranked       |-> ranked]

(***************************************************************************)
(* State.                                                                  *)
(***************************************************************************)
VARIABLES
    pc,                      \* where the run is
    df_wti,                  \* last row of the price table, and its columns
    cambio_prediccion,       \* forecast change in percent (Prophet)
    sentimiento,             \* mean weighted compound sentiment (VADER)
    escenarios,              \* result of generar_escenarios
    recomendacion,           \* result of generar_recomendacion_final
    fused,                   \* whether the BLAS build fuses multiply-add
    situacion_actual,        \* the query vector
    situaciones_historicas,  \* the library: <<[nombre, vector], ...>> in insertion order
    tabla,                   \* the rows computed so far by the loop
    ranking,                 \* result of rank
    recommendation           \* result of recommend

vars == <<pc, df_wti, cambio_prediccion, sentimiento, escenarios, recomendacion,
          fused, situacion_actual, situaciones_historicas, tabla, ranking,
          recommendation>>

blenderVars == <<df_wti, cambio_prediccion, sentimiento, escenarios, recomendacion>>

engineVars == <<fused, situacion_actual, situaciones_historicas, tabla, ranking,
                recommendation>>

(***************************************************************************)
(* Inputs.                                                                 *)
(***************************************************************************)
\* Forecast changes -2.5 * MaxCambio .. 2.5 * MaxCambio percent, in steps of 2.5.
MaxCambio == 5

Cambios == {Dec(25 * c, 10) : c \in -MaxCambio..MaxCambio}

\* Sentiments -MaxSent / 10 .. MaxSent / 10 in steps of 0.1 (beyond [-1, 1]: the
\* mean of score * peso is not confined to it), and the two far outside it at
\* -SentFuera / 10 and SentFuera / 10.
MaxSent == 11

SentFuera == 20

Sentimientos ==
    {Dec(x, 10) : x \in -MaxSent..MaxSent} \cup {Dec(-SentFuera, 10), Dec(SentFuera, 10)}

Precios == {FromInt(70)}

\* What the rolling means and the RSI of the price history can come to, for a
\* last price of 70: up, down, sideways, a tie, and a history too short (nan).
Indicadores ==
    {[SMA_20 |-> FromInt(68), SMA_50 |-> FromInt(65), RSI |-> FromInt(75)],
     [SMA_20 |-> FromInt(72), SMA_50 |-> FromInt(75), RSI |-> FromInt(25)],
     [SMA_20 |-> FromInt(72), SMA_50 |-> FromInt(65), RSI |-> FromInt(50)],
     [SMA_20 |-> FromInt(70), SMA_50 |-> FromInt(65), RSI |-> FromInt(50)],
     [SMA_20 |-> NaN, SMA_50 |-> NaN, RSI |-> NaN]}

\* The demonstration's data, and a second copy of scenario A under another name.
Escenarios ==
    {[nombre |-> <<"Escenario", "A", "MUY", "SIMILAR">>, vector |-> np_array(<<85, 55, 75, 95>>)],
     [nombre |-> <<"Escenario", "B", "SIMILAR">>,        vector |-> np_array(<<75, 65, 65, 90>>)],
     [nombre |-> <<"Escenario", "C", "DIFERENTE">>,      vector |-> np_array(<<30, 20, 15, 10>>)],
     [nombre |-> <<"Escenario", "D", "OPUESTO">>,        vector |-> np_array(<<20, 40, 30, 0>>)],
     [nombre |-> <<"Escenario", "E">>,                   vector |-> np_array(<<85, 55, 75, 95>>)]}

\* The demonstration's query, a second one, and the first one negated.
Consultas ==
    {np_array(<<80, 60, 70, 100>>), np_array(<<25, 30, 20, 5>>),
     np_array(<<-80, -60, -70, -100>>)}

\* Libraries: up to MaxLib distinct scenarios in any insertion order.
MaxLib == 3

RECURSIVE Bibliotecas(_)
Bibliotecas(n) ==
    IF n = 0 THEN {<<>>}
    ELSE LET menores == Bibliotecas(n - 1)
         IN  menores \cup
             {Append(b, e) : <<b, e>> \in
                 {<<b, e>> \in menores \X Escenarios :
                     Len(b) = n - 1 /\ \A j \in 1..Len(b) : b[j] # e}}

\* The vectors of the demonstration, and each of them scaled by k / 2 for
\* k in 1..MaxEscala (k * a on a numpy array multiplies element by element).
MaxEscala == 4

Vectores == {e.vector : e \in Escenarios} \cup Consultas

\* Vectors of other lengths and of norm zero: [1, 2, 3], [1, 2], [0, 0, 0].
Ejemplos == {np_array(<<100, 200, 300>>), np_array(<<100, 200>>), np_array(<<0, 0, 0>>)}

Escalar(k, a) == [i \in 1..Len(a) |-> FMul(k, a[i])]

Escalas == {Dec(k, 2) : k \in 1..MaxEscala}

InitBlender ==
    /\ pc = "escenarios"
    /\ df_wti \in {[precio |-> p, columnas |-> {"fecha", "precio"}] : p \in Precios}
    /\ cambio_prediccion \in Cambios
    /\ sentimiento \in Sentimientos
    /\ escenarios = None
    /\ recomendacion = None
    /\ fused = FALSE
    /\ situacion_actual = <<>>
    /\ situaciones_historicas = <<>>
    /\ tabla = <<>>
    /\ ranking = None
    /\ recommendation = None

InitEngine ==
    /\ pc = "demo"
    /\ df_wti = None
    /\ cambio_prediccion = Zero
    /\ sentimiento = Zero
    /\ escenarios = None
    /\ recomendacion = None
    /\ fused \in BOOLEAN
    /\ situacion_actual \in Consultas
    /\ situaciones_historicas \in Bibliotecas(MaxLib)
    /\ tabla = <<>>
    /\ ranking = None
    /\ recommendation = None

\* A query and a library of one situation: any demonstration vector at any
\* scale, or one of the vectors of other length or of norm zero; or a library
\* of two, scenario A and then one of the latter.
InitCosine ==
    /\ pc = "demo"
    /\ df_wti = None
    /\ cambio_prediccion = Zero
    /\ sentimiento = Zero
    /\ escenarios = None
    /\ recomendacion = None
    /\ fused \in BOOLEAN
    /\ situacion_actual \in Vectores \cup Ejemplos
    /\ situaciones_historicas \in
           {<<[nombre |-> <<"Escenario", "K">>, vector |-> Escalar(k, v)]>> :
               k \in Escalas, v \in Vectores}
           \cup {<<[nombre |-> <<"Escenario", "K">>, vector |-> v]>> : v \in Ejemplos}
           \cup {<<[nombre |-> <<"Escenario", "A", "MUY", "SIMILAR">>,
                     vector |-> np_array(<<85, 55, 75, 95>>)],
                    [nombre |-> <<"Escenario", "K">>, vector |-> v]>> : v \in Ejemplos}
    /\ tabla = <<>>
    /\ ranking = None
    /\ recommendation = None

\* A coarser grid of forecast changes (steps of 2.5 percent) and sentiments
\* (steps of 0.4), -MaxPaso..MaxPaso steps each, on which two calls that differ
\* in one input are compared.
MaxPaso == 2

CambiosPaso == {Dec(25 * c, 10) : c \in -MaxPaso..MaxPaso}

SentimientosPaso == {Dec(4 * x, 10) : x \in -MaxPaso..MaxPaso}

InitSenales ==
    /\ pc = "escenarios"
    /\ df_wti \in {[precio |-> p, columnas |-> {"fecha", "precio"}] : p \in Precios}
    /\ cambio_prediccion \in CambiosPaso
    /\ sentimiento \in SentimientosPaso
    /\ escenarios = None
    /\ recomendacion = None
    /\ fused = FALSE
    /\ situacion_actual = <<>>
    /\ situaciones_historicas = <<>>
    /\ tabla = <<>>
    /\ ranking = None
    /\ recommendation = None

(***************************************************************************)
(* Operations.                                                             *)
(***************************************************************************)
\* main, step 6: the three price scenarios.
GenerarEscenarios ==
    /\ pc = "escenarios"
    /\ escenarios' = generar_escenarios(df_wti.precio, cambio_prediccion, sentimiento)
    /\ pc' = "main"
    /\ UNCHANGED <<df_wti, cambio_prediccion, sentimiento, recomendacion>>
    /\ UNCHANGED engineVars

\* main, step 7: the rolling means and the RSI are added to the caller's table
\* as columns, and the recommendation is computed from its last row.
GenerarRecomendacionFinal ==
    /\ pc = "main"
    /\ \E ind \in Indicadores :
          LET df == [precio |-> df_wti.precio, SMA_20 |-> ind.SMA_20,
                     SMA_50 |-> ind.SMA_50, RSI |-> ind.RSI]
          IN  /\ df_wti' = [df @@ [columnas |-> df_wti.columnas \cup {"SMA_20", "SMA_50", "RSI"}]
                             EXCEPT !.precio = df_wti.precio]
              /\ recomendacion' =
                     generar_recomendacion_final(df, cambio_prediccion, sentimiento, escenarios)
    /\ pc' = "fin"
    /\ UNCHANGED <<cambio_prediccion, sentimiento, escenarios>>
    /\ UNCHANGED engineVars

\* One pass of the loop over situaciones_historicas.items(); numpy raises
\* ValueError on operands of different length, which ends the run.
Iterar ==
    /\ pc = "demo"
    /\ Len(tabla) < Len(situaciones_historicas)
    /\ LET s    == situaciones_historicas[Len(tabla) + 1]
           fila == Fila(situacion_actual, s.nombre, s.vector, fused)
       IN  /\ tabla' = Append(tabla, fila)
           /\ pc' = IF fila.cosine_sim = ValueError THEN "error" ELSE "demo"
    /\ UNCHANGED <<fused, situacion_actual, situaciones_historicas, ranking, recommendation>>
    /\ UNCHANGED blenderVars

\* rank(query, library), once every situation has its similarity or the
\* similarity of one has failed.
Rank ==
    /\ \/ pc = "demo" /\ Len(tabla) = Len(situaciones_historicas)
       \/ pc = "error"
    /\ ranking' = rank(tabla)
    /\ pc' = "ranked"
    /\ UNCHANGED <<fused, situacion_actual, situaciones_historicas, tabla, recommendation>>
    /\ UNCHANGED blenderVars

\* recommend(query, library, catalog)
Recommend ==
    /\ pc = "ranked"
    /\ recommendation' = recommend(tabla, ActionCatalog)
    /\ pc' = "done"
    /\ UNCHANGED <<fused, situacion_actual, situaciones_historicas, tabla, ranking>>
    /\ UNCHANGED blenderVars

NextBlender == GenerarEscenarios \/ GenerarRecomendacionFinal

NextEngine == Iterar \/ Rank \/ Recommend

SpecBlender == InitBlender /\ [][NextBlender]_vars

SpecEngine == InitEngine /\ [][NextEngine]_vars

SpecCosine == InitCosine /\ [][NextEngine]_vars

SpecSenales == InitSenales /\ [][NextBlender]_vars

(***************************************************************************)
(* SignalBlender: generar_recomendacion_final.                             *)
(***************************************************************************)
\* C4: for all input signals the score is 0.40 * prediction + 0.30 * technical
\* + 0.30 * sentiment, the weights sum to 1, and the signals 0.75, 0.7, 0.85
\* give the score 0.765 and the action COMPRAR FUERTE.
C4_ScoreIsWeightedSum ==
    recomendacion # None =>
        LET s == recomendacion.senales
        IN  /\ recomendacion.score =
                   FAdd(FAdd(FMul(Dec(40, 100), s.pred_norm), FMul(Dec(30, 100), s.tecnico_norm)),
                        FMul(Dec(30, 100), s.sent_norm))
            /\ FAdd(FAdd(Dec(40, 100), Dec(30, 100)), Dec(30, 100)) = FromInt(1)
            /\ (s.pred_norm = Dec(75, 100) /\ s.tecnico_norm = Dec(7, 10) /\ s.sent_norm = Dec(85, 100))
                   => /\ recomendacion.score = Dec(765, 1000)
                      /\ recomendacion.accion = "COMPRAR FUERTE"

\* The function has returned for the signals 0.75, 0.7, 0.85.
C4_Witness ==
    /\ pc = "fin"
    /\ recomendacion # None
    /\ recomendacion.senales =
           [pred_norm |-> Dec(75, 100), tecnico_norm |-> Dec(7, 10), sent_norm |-> Dec(85, 100)]

C6_BuyBoundaryInclusive ==
    (recomendacion # None /\ recomendacion.score = Dec(55, 100))
        => recomendacion.accion = "COMPRAR"

\* A run whose score came out at exactly 0.55.
C6_Witness ==
    /\ pc = "fin"
    /\ recomendacion # None
    /\ recomendacion.score = Dec(55, 100)
    /\ recomendacion.accion # "MANTENER"

C8_SellAtOrBelow045 ==
    (recomendacion # None /\ FLe(recomendacion.score, Dec(45, 100)))
        => recomendacion.accion = "VENDER"

\* C17: whenever each of the three signals lies in [0, 1], the blended score
\* lies in [0, 1].
C17_ScoreInUnitInterval ==
    recomendacion # None =>
        LET s == recomendacion.senales
        IN  (/\ FGe(s.pred_norm, Zero) /\ FLe(s.pred_norm, FromInt(1))
             /\ FGe(s.tecnico_norm, Zero) /\ FLe(s.tecnico_norm, FromInt(1))
             /\ FGe(s.sent_norm, Zero) /\ FLe(s.sent_norm, FromInt(1)))
                => /\ FGe(recomendacion.score, Zero)
                   /\ FLe(recomendacion.score, FromInt(1))

\* The score of the largest signals the function can form within [0, 1]:
\* prediction 1, technical 0.7, sentiment 1.
C17_Witness ==
    /\ pc = "fin"
    /\ recomendacion # None
    /\ recomendacion.senales.pred_norm = FromInt(1)
    /\ recomendacion.senales.tecnico_norm = Dec(7, 10)
    /\ recomendacion.senales.sent_norm = FromInt(1)
    /\ FGt(recomendacion.score, Dec(9, 10))

C19_PredictionSignalClamped ==
    pc = "fin" =>
        LET c == cambio_prediccion
            p == recomendacion.senales.pred_norm
        IN  /\ (FGe(c, FromInt(-10)) /\ FLe(c, FromInt(10)))
                   => p = FDiv(FAdd(c, FromInt(10)), FromInt(20))
            /\ FLt(c, FromInt(-10)) => FEq(p, Zero)
            /\ FGt(c, FromInt(10)) => FEq(p, FromInt(1))
            /\ FGe(p, Zero) /\ FLe(p, FromInt(1))
            /\ FGe(pred_norm(FAdd(c, Dec(25, 10))), p)

\* A run with a forecast change above +10 %.
C19_Witness ==
    /\ pc = "fin"
    /\ FGt(cambio_prediccion, FromInt(10))
    /\ FEq(recomendacion.senales.pred_norm, FromInt(1))

C21_TechnicalSignalTriValued ==
    pc = "fin" =>
        LET p   == df_wti.precio
            a   == df_wti.SMA_20
            b   == df_wti.SMA_50
            t   == recomendacion.senales.tecnico_norm
            sube == FGt(p, a) /\ FGt(a, b)
            baja == FLt(p, a) /\ FLt(a, b)
        IN  /\ ~(sube /\ baja)
            /\ sube => t = Dec(7, 10) /\ recomendacion.razones.tendencia = "ALCISTA"
            /\ baja => t = Dec(3, 10) /\ recomendacion.razones.tendencia = "BAJISTA"
            /\ ~sube /\ ~baja =>
                   t = Dec(5, 10) /\ recomendacion.razones.tendencia = "LATERAL"
            /\ (FEq(p, a) \/ FEq(a, b) \/ FEq(p, b)) => t = Dec(5, 10)

\* A tie: the price equals SMA20, which is above SMA50, and the signal is 0.5.
C21_Witness ==
    /\ pc = "fin"
    /\ FEq(df_wti.precio, df_wti.SMA_20)
    /\ FGt(df_wti.SMA_20, df_wti.SMA_50)
    /\ recomendacion.senales.tecnico_norm = Dec(5, 10)

\* C24: with the actions ordered VENDER FUERTE < VENDER < MANTENER < COMPRAR <
\* COMPRAR FUERTE, a call that differs from the one made in one input only, and
\* has that signal at least as high, gives a score at least as high and an
\* action at least as high.
C24_Monotone ==
    pc = "fin" =>
        LET r  == recomendacion
            df == [precio |-> df_wti.precio, SMA_20 |-> df_wti.SMA_20,
                   SMA_50 |-> df_wti.SMA_50, RSI |-> df_wti.RSI]
            Rango(accion) ==
                CASE accion = "VENDER FUERTE"  -> 1
                  [] accion = "VENDER"         -> 2
                  [] accion = "MANTENER"       -> 3
                  [] accion = "COMPRAR"        -> 4
                  [] accion = "COMPRAR FUERTE" -> 5
            NoBaja(r2) ==
                /\ FGe(r2.score, r.score)
                /\ Rango(r2.accion) >= Rango(r.accion)
        IN  /\ \A c2 \in CambiosPaso :
                   LET r2 == generar_recomendacion_final(df, c2, sentimiento, escenarios)
                   IN  FGe(r2.senales.pred_norm, r.senales.pred_norm) => NoBaja(r2)
            /\ \A s2 \in SentimientosPaso :
                   LET r2 == generar_recomendacion_final(df, cambio_prediccion, s2, escenarios)
                   IN  FGe(r2.senales.sent_norm, r.senales.sent_norm) => NoBaja(r2)
            /\ \A ind \in Indicadores :
                   LET r2 == generar_recomendacion_final(
                                 [precio |-> df_wti.precio, SMA_20 |-> ind.SMA_20,
                                  SMA_50 |-> ind.SMA_50, RSI |-> ind.RSI],
                                 cambio_prediccion, sentimiento, escenarios)
                   IN  FGe(r2.senales.tecnico_norm, r.senales.tecnico_norm) => NoBaja(r2)

\* A neutral call (score 0.5, MANTENER) for which a forecast change of 5 percent
\* in place of 0 lifts the action to COMPRAR and an uptrend in place of the
\* sideways market lifts the score.
C24_Witness ==
    /\ pc = "fin"
    /\ cambio_prediccion = Zero
    /\ sentimiento = Zero
    /\ recomendacion.razones.tendencia = "LATERAL"
    /\ recomendacion.accion = "MANTENER"
    /\ Decision(score_final(pred_norm(FromInt(5)), Dec(5, 10), Dec(5, 10))).accion = "COMPRAR"
    /\ FGt(score_final(Dec(5, 10), Dec(7, 10), Dec(5, 10)), recomendacion.score)

\* C23: no call modifies shared or caller-supplied data: across every step of
\* a recommend or blend call the price table, the forecast change, the
\* sentiment, the scenarios once computed, the query, the situation library and
\* the action catalog keep their contents and order.
C23_NoCallModifiesItsInputs ==
    [][/\ df_wti' = df_wti
       /\ cambio_prediccion' = cambio_prediccion
       /\ sentimiento' = sentimiento
       /\ (pc = "main" => escenarios' = escenarios)
       /\ situacion_actual' = situacion_actual
       /\ situaciones_historicas' = situaciones_historicas]_vars

\* C25: the call with every signal x replaced by 1 - x (forecast change and
\* sentiment negated, the moving averages reflected about the price, so that
\* uptrend and downtrend change places) has the score 1 - s, up to 10^-9, and
\* the opposite action (COMPRAR FUERTE <-> VENDER FUERTE, COMPRAR <-> VENDER,
\* MANTENER <-> MANTENER), boundary scores included; three signals of 0.5 give
\* MANTENER.
C25_MirrorSymmetric ==
    pc = "fin" =>
        LET r   == recomendacion
            dos == FMul(FromInt(2), df_wti.precio)
            espejo == generar_recomendacion_final(
                          [precio |-> df_wti.precio,
                           SMA_20 |-> FSub(dos, df_wti.SMA_20),
                           SMA_50 |-> FSub(dos, df_wti.SMA_50),
                           RSI    |-> FSub(FromInt(100), df_wti.RSI)],
                          FNeg(cambio_prediccion), FNeg(sentimiento), escenarios)
            Opuesta(accion) ==
                CASE accion = "VENDER FUERTE"  -> "COMPRAR FUERTE"
                  [] accion = "VENDER"         -> "COMPRAR"
                  [] accion = "MANTENER"       -> "MANTENER"
                  [] accion = "COMPRAR"        -> "VENDER"
                  [] accion = "COMPRAR FUERTE" -> "VENDER FUERTE"
            eps == Dec(1, 1000000000)
            dif == FSub(espejo.score, FSub(FromInt(1), r.score))
        IN  /\ FLe(dif, eps) /\ FGe(dif, FNeg(eps))
            /\ espejo.accion = Opuesta(r.accion)
            /\ (/\ r.senales.pred_norm = Dec(5, 10)
                /\ r.senales.tecnico_norm = Dec(5, 10)
                /\ r.senales.sent_norm = Dec(5, 10)) => r.accion = "MANTENER"

\* C26: for a positive current price and any base forecast change, the scenario
\* prices are ordered optimista >= conservador >= pesimista.
C26_ScenariosOrdered ==
    (pc \in {"main", "fin"} /\ FGt(df_wti.precio, FromInt(0))) =>
        /\ FGe(escenarios.optimista.precio, escenarios.conservador.precio)
        /\ FGe(escenarios.conservador.precio, escenarios.pesimista.precio)

(***************************************************************************)
(* VectorSimilarity: the cosine of the similarity table.                   *)
(***************************************************************************)
\* C9: for all non-zero vectors a and b of equal length,
\* cosineSimilarity(a, b) equals cosineSimilarity(b, a).
C9_CosineSymmetric ==
    (pc = "demo" /\ Len(tabla) = 1) =>
        tabla[1].cosine_sim =
            cosine_sim(situaciones_historicas[1].vector, situacion_actual, fused)

\* The similarity of two vectors of different direction has been computed.
C9_Witness ==
    /\ pc = "demo"
    /\ Len(tabla) = 1
    /\ situacion_actual = np_array(<<80, 60, 70, 100>>)
    /\ situaciones_historicas[1].vector = np_array(<<20, 40, 30, 0>>)
    /\ FLt(tabla[1].cosine_sim, FromInt(1))
    /\ FGt(tabla[1].cosine_sim, FromInt(0))

\* C10 as stated: for every non-zero vector a and every positive scalar k,
\* cosineSimilarity(a, k * a) equals 1.
C10_ScaledCopyIsExactlyOne ==
    (/\ Len(tabla) = 1
     /\ \E i \in 1..Len(situacion_actual) : ~IsZero(situacion_actual[i])
     /\ \E k \in Escalas :
            situaciones_historicas[1].vector = Escalar(k, situacion_actual))
        => tabla[1].cosine_sim = FromInt(1)

\* C10 amended: for every non-zero vector a and every positive scalar k (with
\* no overflow or underflow in the products), cosineSimilarity(a, k * a) is 1
\* within the tolerance 1e-9.
C10_ScaledCopyIsOneWithinTolerance ==
    (/\ Len(tabla) = 1
     /\ \E i \in 1..Len(situacion_actual) : ~IsZero(situacion_actual[i])
     /\ \E k \in Escalas :
            situaciones_historicas[1].vector = Escalar(k, situacion_actual))
        => LET diferencia == FSub(tabla[1].cosine_sim, FromInt(1))
               tolerancia == Dec(1, 1000000000)
           IN  FLe(diferencia, tolerancia) /\ FGe(diferencia, FNeg(tolerancia))

\* The similarity of the demonstration's query with 1.5 times itself has been
\* computed.
C10_Witness ==
    /\ Len(tabla) = 1
    /\ situacion_actual = np_array(<<80, 60, 70, 100>>)
    /\ situaciones_historicas[1].vector = Escalar(Dec(3, 2), situacion_actual)
    /\ tabla[1].cosine_sim # ValueError

\* C11 as stated: for all non-zero equal-length vectors the cosine similarity
\* lies in [-1, 1], and in [0, 1] when no component of either is negative.
C11_CosineInRange ==
    (/\ Len(tabla) = 1
     /\ Len(situacion_actual) = Len(situaciones_historicas[1].vector)
     /\ \E i \in 1..Len(situacion_actual) : ~IsZero(situacion_actual[i])
     /\ \E i \in 1..Len(situacion_actual) : ~IsZero(situaciones_historicas[1].vector[i]))
        => LET c == tabla[1].cosine_sim
               sin_negativos ==
                   \A i \in 1..Len(situacion_actual) :
                       /\ FGe(situacion_actual[i], Zero)
                       /\ FGe(situaciones_historicas[1].vector[i], Zero)
           IN  /\ FGe(c, FromInt(-1))
               /\ FLe(c, FromInt(1))
               /\ sin_negativos => FGe(c, Zero)

\* C11 amended: the cosine similarity lies in [-1, 1] up to rounding, that is
\* between -1 - 1e-9 and 1 + 1e-9, and between 0 and 1 + 1e-9 when no component
\* of either vector is negative.
C11_CosineInRangeWithinTolerance ==
    (/\ Len(tabla) = 1
     /\ Len(situacion_actual) = Len(situaciones_historicas[1].vector)
     /\ \E i \in 1..Len(situacion_actual) : ~IsZero(situacion_actual[i])
     /\ \E i \in 1..Len(situacion_actual) : ~IsZero(situaciones_historicas[1].vector[i]))
        => LET c == tabla[1].cosine_sim
               tolerancia == Dec(1, 1000000000)
               sin_negativos ==
                   \A i \in 1..Len(situacion_actual) :
                       /\ FGe(situacion_actual[i], Zero)
                       /\ FGe(situaciones_historicas[1].vector[i], Zero)
           IN  /\ FGe(c, FSub(FromInt(-1), tolerancia))
               /\ FLe(c, FAdd(FromInt(1), tolerancia))
               /\ sin_negativos => FGe(c, Zero)

\* The similarity of the negated query with a demonstration vector has been
\* computed and is negative.
C11_Witness ==
    /\ Len(tabla) = 1
    /\ situacion_actual = np_array(<<-80, -60, -70, -100>>)
    /\ situaciones_historicas[1].vector = np_array(<<20, 40, 30, 0>>)
    /\ FLt(tabla[1].cosine_sim, Zero)
    /\ FGt(tabla[1].cosine_sim, FromInt(-1))

\* C22: the cosine similarity of the demonstration's current situation
\* [0.80, 0.60, 0.70, 1.00] and 'Escenario A' [0.85, 0.55, 0.75, 0.95] is
\* 0.9987 when printed with four decimals, as the header comment and the
\* printed conclusion say.
C22_DemoCosineIs09987 ==
    \A i \in 1..Len(tabla) :
        (/\ situacion_actual = np_array(<<80, 60, 70, 100>>)
         /\ situaciones_historicas[i].nombre = <<"Escenario", "A", "MUY", "SIMILAR">>
         /\ situaciones_historicas[i].vector = np_array(<<85, 55, 75, 95>>))
            => formato_4f(tabla[i].cosine_sim) = 9987

\* C12: cosineSimilarity on two vectors of different length fails with a
\* distinguishable error and returns no similarity value (e.g. for [1, 2, 3]
\* and [1, 2]), and rank (and recommend) fail with DimensionMismatch when the
\* query's length differs from that of any library vector.
C12_DimensionMismatch ==
    \A i \in 1..Len(tabla) :
        Len(situaciones_historicas[i].vector) # Len(situacion_actual) =>
            /\ tabla[i].cosine_sim = ValueError
            /\ i = Len(tabla)
            /\ pc # "demo"
            /\ pc \in {"ranked", "done"} => ranking = DimensionMismatch
            /\ pc = "done" => recommendation = DimensionMismatch

\* The similarity of [1, 2, 3] and [1, 2] has been asked for, and then the
\* ranking and the recommendation.
C12_Witness ==
    /\ pc = "done"
    /\ situacion_actual = np_array(<<100, 200, 300>>)
    /\ situaciones_historicas[1].vector = np_array(<<100, 200>>)
    /\ Len(tabla) = 1
    /\ recommendation = DimensionMismatch

\* C13: cosineSimilarity with a vector of norm exactly zero (either argument)
\* fails with an error instead of returning a number or an undefined value
\* (e.g. for [0, 0, 0] and [1, 2, 3]).
C13_ZeroNormFails ==
    \A i \in 1..Len(tabla) :
        (/\ Len(situaciones_historicas[i].vector) = Len(situacion_actual)
         /\ \/ \A j \in 1..Len(situacion_actual) : IsZero(situacion_actual[j])
            \/ \A j \in 1..Len(situacion_actual) :
                  IsZero(situaciones_historicas[i].vector[j]))
            => /\ tabla[i].cosine_sim.k \notin {"fin", "nan", "inf"}
               /\ i = Len(tabla)
               /\ pc # "demo"

(***************************************************************************)
(* SimilarityRanker and RecommendationEngine.                              *)
(***************************************************************************)
\* C1: for a non-empty library whose outcomes all resolve in the catalog,
\* recommend returns as chosen action catalog.lookup(outcomeOf(s)) for the first
\* entry s of rank(query, library), that entry's similarity as score, and the
\* complete ranking; no situation is more similar than the one the action is
\* taken from.
C1_ActionOfTopRanked ==
    (pc = "done" /\ tabla # <<>>) =>
        /\ recommendation \notin Errores
        /\ recommendation.chosenAction = ActionCatalog[ranking[1].recomendacion]
        /\ recommendation.matched = ranking[1].nombre
        /\ recommendation.score = ranking[1].cosine_sim
        /\ recommendation.ranked = ranking
        /\ Len(recommendation.ranked) = Len(situaciones_historicas)
        /\ \A j \in 1..Len(tabla) : ~FGt(tabla[j].cosine_sim, recommendation.score)
        /\ \E j \in 1..Len(tabla) :
              /\ tabla[j].nombre = recommendation.matched
              /\ tabla[j].recomendacion = recommendation.chosenAction.id

\* A recommendation over three situations whose best match was inserted last.
C1_Witness ==
    /\ pc = "done"
    /\ Len(tabla) = 3
    /\ recommendation \notin Errores
    /\ recommendation.matched = situaciones_historicas[3].nombre
    /\ FGt(recommendation.score, tabla[1].cosine_sim)

\* C2: for a library of N >= 1 situations rank returns exactly N results, one per
\* library situation, each with a score >= that of the result after it, and a
\* second call with the same query and library returns the same sequence.
C2_RankSortedComplete ==
    (pc \in {"ranked", "done"} /\ tabla # <<>>) =>
        /\ Len(ranking) = Len(situaciones_historicas)
        /\ \A i \in 1..Len(situaciones_historicas) :
              Cardinality({j \in 1..Len(ranking) :
                              ranking[j].nombre = situaciones_historicas[i].nombre}) = 1
        /\ \A j \in 1..Len(ranking) : \E i \in 1..Len(tabla) : ranking[j] = tabla[i]
        /\ \A j \in 1..(Len(ranking) - 1) :
              FGe(ranking[j].cosine_sim, ranking[j + 1].cosine_sim)
        /\ pc = "done" => recommendation.ranked = ranking

\* A ranking of three situations that were inserted in ascending order of
\* similarity.
C2_Witness ==
    /\ pc = "ranked"
    /\ Len(tabla) = 3
    /\ FLt(tabla[1].cosine_sim, tabla[2].cosine_sim)
    /\ FLt(tabla[2].cosine_sim, tabla[3].cosine_sim)

\* C3: two library situations of exactly equal similarity to the query are
\* ranked in insertion order relative to each other.
C3_TiesKeepInsertionOrder ==
    (pc \in {"ranked", "done"} /\ tabla # <<>>) =>
        \A i, j \in 1..Len(tabla) :
            (i < j /\ tabla[i].cosine_sim = tabla[j].cosine_sim) =>
                \E p, q \in 1..Len(ranking) :
                    /\ p < q
                    /\ ranking[p].nombre = tabla[i].nombre
                    /\ ranking[q].nombre = tabla[j].nombre

\* A ranking of a library that holds two situations with the same vector, with a
\* third one inserted between them.
C3_Witness ==
    /\ pc = "ranked"
    /\ Len(tabla) = 3
    /\ situaciones_historicas[1].vector = situaciones_historicas[3].vector
    /\ tabla[1].cosine_sim = tabla[3].cosine_sim
    /\ tabla[1].nombre # tabla[3].nombre

\* C14: rank, and therefore recommend, called with a library of zero situations
\* fails with EmptyLibrary; it returns neither an empty ranking nor a
\* recommendation.
C14_EmptyLibrary ==
    (pc \in {"ranked", "done"} /\ situaciones_historicas = <<>>) =>
        /\ ranking = EmptyLibrary
        /\ pc = "done" => recommendation = EmptyLibrary

\* rank and recommend have been called with the empty library.
C14_Witness ==
    /\ pc = "done"
    /\ situaciones_historicas = <<>>
    /\ tabla = <<>>
    /\ recommendation = EmptyLibrary

\* C15: when the top-ranked situation has no bound outcome, or its outcome is
\* absent from the catalog, the recommendation fails with UnknownSituation or
\* UnknownAction; no default action is returned in place of the failed lookup.
C15_NoFallbackAction ==
    (pc = "done" /\ tabla # <<>>) =>
        LET nombre == ranking[1].nombre
            sin_resultado ==
                ~(Contiene(nombre, "SIMILAR") \/ Contiene(nombre, "DIFERENTE")
                    \/ Contiene(nombre, "OPUESTO"))
        IN  /\ sin_resultado => recommendation = UnknownSituation
            /\ (~sin_resultado /\ ranking[1].recomendacion \notin DOMAIN ActionCatalog)
                   => recommendation = UnknownAction

\* C16: recommend enforces no minimum similarity: for a valid query and a
\* non-empty library it returns the recommendation of the top-ranked situation
\* however low its similarity, and the runners-up have no influence on the
\* chosen action (it is the one recommend gives for the top situation alone).
C16_NoMinimumSimilarity ==
    (pc = "done" /\ tabla # <<>>) =>
        LET mejor == CHOOSE i \in 1..Len(tabla) :
                         /\ \A j \in 1..Len(tabla) :
                               ~FGt(tabla[j].cosine_sim, tabla[i].cosine_sim)
                         /\ \A j \in 1..(i - 1) :
                               FGt(tabla[i].cosine_sim, tabla[j].cosine_sim)
        IN  /\ DOMAIN recommendation = {"chosenAction", "matched", "score", "ranked"}
            /\ recommendation.matched = tabla[mejor].nombre
            /\ recommendation.score = tabla[mejor].cosine_sim
            /\ recommendation.chosenAction.id = tabla[mejor].recomendacion
            /\ recommendation.chosenAction =
                   recommend(<<tabla[mejor]>>, ActionCatalog).chosenAction

\* A recommendation over three situations, all of negative similarity to the
\* query.
C16_Witness ==
    /\ pc = "done"
    /\ Len(tabla) = 3
    /\ \A j \in 1..3 : FLt(tabla[j].cosine_sim, Zero)
    /\ recommendation \notin Errores
    /\ FLt(recommendation.score, Zero)

====
